---- MODULE Spec2Model ----
(***************************************************************************)
(* A model of the LRU cache of billhathaway/lru: the map `data` from keys  *)
(* to list elements, the container/list `list` that keeps the recency      *)
(* order (front = most recently used), the four counters and the optional  *)
(* purger.  Spec is the cache under the calls of one goroutine: one call   *)
(* is one step.  ConcSpec is the cache under the calls of several          *)
(* goroutines: a call is a sequence of steps, from l.mutex.Lock() (where   *)
(* the method has one) to the deferred Unlock, and the steps of different  *)
(* goroutines interleave.  FairSpec is ConcSpec under a fair scheduler.    *)
(***************************************************************************)
EXTENDS Integers, Sequences, FiniteSets, TLC

----------------------------------------------------------------------------
(* Bounds of the model *)

NumKeys == 3
MaxLimit == 3
MaxCount == 2
UintBits == 4
NumThreads == 2

Keys == 1..NumKeys

(* The cache never inspects a value and never compares purgers: two values
   tell any two stored values apart, and one purger tells a registered one
   from none. *)
Values == {1, 2}
Purgers == {1}

(* Go's nil: the interface{} result of Set/Get, a nil Purger, a nil *Element *)
Nil == 0
NoPurger == 0
NoElem == 0

(* Addresses of list.Element objects; an address is live while the list or
   the map refers to it. *)
ElemIds == 1..(2 * NumKeys + 1)

(* limit is a Go uint.  The model scales the word down to UintBits bits:
   the values from 2^(UintBits-1) up are the ones int(limit) turns negative. *)
UintMax == 2 ^ UintBits - 1
WideLimits == {2 ^ (UintBits - 1), UintMax}
LimitInputs == (0..MaxLimit) \cup WideLimits

(* Goroutines that call the cache; the mutex is free or held by one *)
Threads == 1..NumThreads
NoThread == 0

(* l.logger: nil after New, or the logger SetLogger stored *)
NoLogger == 0
Loggers == {1}

VARIABLES
  list,      \* l.list: the element addresses, front first
  elems,     \* the heap of list elements: address -> cacheEntry (its Value)
  data,      \* l.data: key -> element address
  limit,     \* l.limit
  hits, misses, expired, removes,  \* the counters
  purger,    \* l.purger (NoPurger when none is registered)
  last,      \* the last call: its name, arguments and results
  calls,     \* the OnPurge invocations the last call made, in order
  touched,   \* history: the present keys, most recently touched first
  scenario,  \* history: a run of Sets of distinct keys on a fresh cache
  logger,    \* l.logger
  mutex,     \* l.mutex: the goroutine that holds it, or NoThread
  pc,        \* where each goroutine is in its call
  req,       \* the call each goroutine is in: method and arguments
  loc,       \* each goroutine's locals: what it has read or computed
  gets,      \* history: the Gets that took effect since the last ResetStats
  rems       \* history: the Removes that took effect since then

cacheVars == <<list, elems, data, limit, hits, misses, expired, removes,
               purger>>
histVars == <<last, calls, touched, scenario>>
concVars == <<logger, mutex, pc, req, loc, gets, rems>>

vars == <<list, elems, data, limit, hits, misses, expired, removes, purger,
          last, calls, touched, scenario,
          logger, mutex, pc, req, loc, gets, rems>>

----------------------------------------------------------------------------
(* Go primitives used by the code *)

\* int(l.limit): a uint converted to the signed int of the same width
IntOf(u) == IF u >= 2 ^ (UintBits - 1) THEN u - 2 ^ UintBits ELSE u

\* x++ on a uint
Inc(x) == (x + 1) % (2 ^ UintBits)

Range(s) == {s[i] : i \in DOMAIN s}

\* delete(m, k)
MapDelete(m, k) == [x \in (DOMAIN m) \ {k} |-> m[x]]

\* m[k] = e
MapPut(m, k, e) == [x \in (DOMAIN m) \cup {k} |-> IF x = k THEN e ELSE m[x]]

\* l.list.Len()
ListLen(lst) == Len(lst)

\* l.list.Back(): nil on an empty list
Back_front(lst) == IF Len(lst) = 0 THEN NoElem ELSE lst[1]
Back(lst) == IF Len(lst) = 0 THEN NoElem ELSE lst[Len(lst)]

\* l.list.Remove(e)
ListRemove(lst, e) == SelectSeq(lst, LAMBDA x : x # e)

\* l.list.MoveToFront(e): nothing when e is not an element of the list
MoveToFront_noop(lst, e) == lst
MoveToFront(lst, e) ==
  IF e \in Range(lst) THEN <<e>> \o ListRemove(lst, e) ELSE lst

\* l.list.PushFront(v) links a new element before the first
PushFront(lst, e) == <<e>> \o lst

\* The address PushFront allocates: one that is not in use.  The choice is
\* canonical (the key's own number when that is free).
NewElem(c, key) ==
  LET live == Range(c.list) \cup {c.data[k] : k \in DOMAIN c.data}
  IN  IF key \notin live THEN key
      ELSE CHOOSE e \in ElemIds \ live : \A f \in ElemIds \ live : e <= f

\* An element nothing refers to any more is garbage.
Collect(c) ==
  LET live == Range(c.list) \cup {c.data[k] : k \in DOMAIN c.data}
  IN  [c EXCEPT !.elems = [e \in (DOMAIN c.elems) \cap live |-> c.elems[e]]]

\* The keys of the list's entries, front first
KeysOf(lst, els) == [i \in 1..Len(lst) |-> els[lst[i]].key]

----------------------------------------------------------------------------
(* The cache as one record, for the methods below *)

Cur ==
  [list |-> list, elems |-> elems, data |-> data, limit |-> limit,
   hits |-> hits, misses |-> misses, expired |-> expired,
   removes |-> removes, purger |-> purger,
   calls |-> <<>>, nilEntry |-> FALSE]

\* New(limit): an error for limit 0, else an empty cache
NewAccepts(l) == l # 0

New(l) ==
  [list |-> <<>>, elems |-> <<>>, data |-> <<>>, limit |-> l,
   hits |-> 0, misses |-> 0, expired |-> 0, removes |-> 0,
   purger |-> NoPurger, calls |-> <<>>, nilEntry |-> FALSE]

\* l.purger.OnPurge(key, value): the notifier sees the cache as it is at the
\* moment of the call.  wrapped tells whether the value argument is the
\* cacheEntry record (entry.Value) or the entry's value (ce.value).
OnPurge(c, key, wrapped, value) ==
  [c EXCEPT !.calls = Append(@,
     [purger |-> c.purger, key |-> key, wrapped |-> wrapped, value |-> value,
      listKeys |-> KeysOf(c.list, c.elems), dataKeys |-> DOMAIN c.data,
      expired |-> c.expired])]

----------------------------------------------------------------------------
(* The methods, statement by statement *)

\* expire of lru.go (the eviction Set runs): removes the oldest entry and
\* hands the purger entry.Value, the cacheEntry record itself.
expire_purgeFirst(c) ==
  LET entry == Back(c.list) IN
  IF entry # NoElem
    THEN LET ce == c.elems[entry]
             c0 == IF c.purger # NoPurger
                     THEN OnPurge(c, ce.key, TRUE, ce.value) ELSE c
             c1 == [c0 EXCEPT !.expired = Inc(@)]
             c2 == [c1 EXCEPT !.data = MapDelete(@, ce.key)]
         IN  [c2 EXCEPT !.list = ListRemove(@, entry)]
    ELSE [c EXCEPT !.nilEntry = TRUE]

expire(c) ==
  LET entry == Back(c.list) IN
  IF entry # NoElem
    THEN LET c1 == [c EXCEPT !.expired = Inc(@)]
             ce == c.elems[entry]
             c2 == [c1 EXCEPT !.data = MapDelete(@, ce.key)]
             c3 == [c2 EXCEPT !.list = ListRemove(@, entry)]
         IN  IF c3.purger # NoPurger
               THEN OnPurge(c3, ce.key, TRUE, ce.value)
               ELSE c3
    ELSE \* l.logger.Printf on the nil logger New leaves: a nil dereference
         [c EXCEPT !.nilEntry = TRUE]

\* expire of the Cache type (the eviction RemoveAll runs): as above, but the
\* purger is handed ce.value.
Cache_expire(c) ==
  LET entry == Back(c.list) IN
  IF entry # NoElem
    THEN LET c1 == [c EXCEPT !.expired = Inc(@)]
             ce == c.elems[entry]
             c2 == [c1 EXCEPT !.data = MapDelete(@, ce.key)]
             c3 == [c2 EXCEPT !.list = ListRemove(@, entry)]
         IN  IF c3.purger # NoPurger
               THEN OnPurge(c3, ce.key, FALSE, ce.value)
               ELSE c3
    ELSE [c EXCEPT !.nilEntry = TRUE]

\* for l.list.Len() >= int(l.limit)
SetLoopCond_gt(c) == ListLen(c.list) > IntOf(c.limit)
SetLoopCond(c) == ListLen(c.list) >= IntOf(c.limit)

\* The loop at the head of Set.  It ends when its condition fails, or when
\* expire dereferences the nil logger and the call panics.
RECURSIVE SetLoop(_)
SetLoop(c) ==
  IF c.nilEntry THEN c
  ELSE IF SetLoopCond(c) THEN SetLoop(expire(c))
  ELSE c

\* The branch of Set for a key the map holds.  ce is a copy of the
\* cacheEntry in entry.Value: the assignment ce.value = val changes the
\* copy, and the element keeps the value it had.
SetFound(c, key, val) ==
  LET entry == c.data[key]
      c1 == [c EXCEPT !.list = MoveToFront(@, entry)]
      ce == c1.elems[entry]
      previousValue == ce.value
      ceCopy == [ce EXCEPT !.value = val]
  IN  [c |-> c1, ret |-> previousValue, found |-> TRUE, panicked |-> FALSE]

\* The branch of Set for a key the map does not hold
SetNew_noIndex(c, key, val) ==
  LET ce == [key |-> key, value |-> val]
      entry == NewElem(c, key)
      c1 == [c EXCEPT !.elems = MapPut(@, entry, ce),
                      !.list = PushFront(@, entry)]
  IN  [c |-> c1, ret |-> Nil, found |-> FALSE, panicked |-> FALSE]

SetNew(c, key, val) ==
  LET ce == [key |-> key, value |-> val]
      entry == NewElem(c, key)
      c1 == [c EXCEPT !.elems = MapPut(@, entry, ce),
                      !.list = PushFront(@, entry)]
      c2 == [c1 EXCEPT !.data = MapPut(@, key, entry)]
  IN  [c |-> c2, ret |-> Nil, found |-> FALSE, panicked |-> FALSE]

Set(c, key, val) ==
  LET c1 == SetLoop(c) IN
  IF c1.nilEntry
    THEN [c |-> c1, ret |-> Nil, found |-> FALSE, panicked |-> TRUE]
  ELSE IF key \in DOMAIN c1.data
    THEN SetFound(c1, key, val)
    ELSE SetNew(c1, key, val)

Get_missCountsHit(c, key) ==
  IF key \in DOMAIN c.data
    THEN LET entry == c.data[key]
             c1 == [c EXCEPT !.hits = Inc(@)]
             c2 == [c1 EXCEPT !.list = MoveToFront(@, entry)]
             c3 == [c2 EXCEPT !.data = MapPut(@, key, entry)]
         IN  [c |-> c3, ret |-> c3.elems[entry].value, found |-> TRUE,
              panicked |-> FALSE]
    ELSE [c |-> [c EXCEPT !.hits = Inc(@), !.misses = Inc(@)],
          ret |-> Nil, found |-> FALSE, panicked |-> FALSE]

Get(c, key) ==
  IF key \in DOMAIN c.data
    THEN LET entry == c.data[key]
             c1 == [c EXCEPT !.hits = Inc(@)]
             c2 == [c1 EXCEPT !.list = MoveToFront(@, entry)]
             c3 == [c2 EXCEPT !.data = MapPut(@, key, entry)]
         IN  [c |-> c3, ret |-> c3.elems[entry].value, found |-> TRUE,
              panicked |-> FALSE]
    ELSE [c |-> [c EXCEPT !.misses = Inc(@)],
          ret |-> Nil, found |-> FALSE, panicked |-> FALSE]

Remove_countsFound(c, key) ==
  IF key \in DOMAIN c.data
    THEN LET entry == c.data[key]
             c1 == [c EXCEPT !.removes = Inc(@)]
             c2 == [c1 EXCEPT !.list = ListRemove(@, entry)]
             c3 == [c2 EXCEPT !.data = MapDelete(@, key)]
         IN  [c |-> c3, ret |-> Nil, found |-> TRUE, panicked |-> FALSE]
    ELSE [c |-> c, ret |-> Nil, found |-> FALSE, panicked |-> FALSE]

Remove_keepsIndex(c, key) ==
  LET c1 == [c EXCEPT !.removes = Inc(@)] IN
  IF key \in DOMAIN c1.data
    THEN LET entry == c1.data[key]
             c2 == [c1 EXCEPT !.list = ListRemove(@, entry)]
         IN  [c |-> c2, ret |-> Nil, found |-> TRUE, panicked |-> FALSE]
    ELSE [c |-> c1, ret |-> Nil, found |-> FALSE, panicked |-> FALSE]

Remove(c, key) ==
  LET c1 == [c EXCEPT !.removes = Inc(@)] IN
  IF key \in DOMAIN c1.data
    THEN LET entry == c1.data[key]
             c2 == [c1 EXCEPT !.list = ListRemove(@, entry)]
             c3 == [c2 EXCEPT !.data = MapDelete(@, key)]
         IN  [c |-> c3, ret |-> Nil, found |-> TRUE, panicked |-> FALSE]
    ELSE [c |-> c1, ret |-> Nil, found |-> FALSE, panicked |-> FALSE]

\* for l.list.Len() > 0
RemoveAllCond_keepOne(c) == ListLen(c.list) > 1
RemoveAllCond(c) == ListLen(c.list) > 0

RECURSIVE RemoveAllLoop(_)
RemoveAllLoop(c) ==
  IF c.nilEntry THEN c
  ELSE IF RemoveAllCond(c) THEN RemoveAllLoop(Cache_expire(c))
  ELSE c

RemoveAll(c) ==
  LET c1 == RemoveAllLoop(c)
  IN  [c |-> c1, ret |-> Nil, found |-> FALSE, panicked |-> c1.nilEntry]

RegisterPurger(c, p) ==
  [c |-> [c EXCEPT !.purger = p], ret |-> Nil, found |-> FALSE,
   panicked |-> FALSE]

ResetStats_keepsRemoves(c) ==
  [c |-> [c EXCEPT !.hits = 0, !.misses = 0, !.expired = 0],
   ret |-> Nil, found |-> FALSE, panicked |-> FALSE]

ResetStats(c) ==
  [c |-> [c EXCEPT !.hits = 0, !.misses = 0, !.expired = 0, !.removes = 0],
   ret |-> Nil, found |-> FALSE, panicked |-> FALSE]

\* float32(x) of a uint: exact below 2^24, else rounded to the nearest value
\* with a 24-bit mantissa (ties to even)
RECURSIVE Ulp(_, _)
Ulp(x, u) == IF x < 2 ^ 24 * u THEN u ELSE Ulp(x, 2 * u)

Float32(x) ==
  LET u == Ulp(x, 1)
      q == x \div u
      rem == x % u
  IN  IF 2 * rem > u \/ (2 * rem = u /\ q % 2 = 1)
        THEN (q + 1) * u ELSE q * u

\* HitRate.  The float32 result is kept as the fraction num / den of the two
\* converted operands (0.0 is 0 / 1; a zero den is the division 0.0 / 0.0).
HitRate_noZeroTest(c) ==
  [c |-> c,
   ret |-> [num |-> Float32(c.hits),
            den |-> Float32((c.hits + c.misses) % (2 ^ UintBits))],
   found |-> FALSE, panicked |-> FALSE]

HitRate(c) ==
  [c |-> c,
   ret |-> IF c.hits = 0
             THEN [num |-> 0, den |-> 1]
             ELSE [num |-> Float32(c.hits),
                   den |-> Float32((c.hits + c.misses) % (2 ^ UintBits))],
   found |-> FALSE, panicked |-> FALSE]

\* Stats: the struct literal reads six fields
Stats(c) ==
  [c |-> c,
   ret |-> [Hits |-> c.hits, Misses |-> c.misses, Limit |-> c.limit,
            Len |-> ListLen(c.list), Expired |-> c.expired,
            Removes |-> c.removes],
   found |-> FALSE, panicked |-> FALSE]

----------------------------------------------------------------------------
(* History kept beside the program's state, for the properties *)

\* The counters are unbounded in the code; the model stops a run when their
\* sum would pass MaxCount (ResetStats starts them again).
WithinBounds(c) == c.hits + c.misses + c.expired + c.removes <= MaxCount

\* A key is touched by every Set of it and every successful Get of it
NextTouched(c, op, key, r) ==
  LET t == IF (op = "Set" /\ ~r.panicked) \/ (op = "Get" /\ r.found)
             THEN <<key>> \o SelectSeq(touched, LAMBDA k : k # key)
             ELSE touched
  IN  SelectSeq(t, LAMBDA k : k \in DOMAIN c.data)

\* A run that starts at New and holds only Sets of keys not set before
\* (and, before the first of them, RegisterPurger calls): n counts the
\* Sets, order lists their keys and inv counts the OnPurge invocations.
NoScenario == [phase |-> "off", n |-> 0, inv |-> 0, order |-> <<>>]

NextScenario(c, op, key, p) ==
  IF scenario.phase = "run" /\ op = "RegisterPurger" /\ scenario.n = 0
    THEN scenario
  ELSE IF scenario.phase = "run" /\ op = "Set"
          /\ key \notin Range(scenario.order)
    THEN [phase |-> "run", n |-> scenario.n + 1,
          inv |-> scenario.inv + Len(c.calls),
          order |-> Append(scenario.order, key)]
  ELSE NoScenario

----------------------------------------------------------------------------
(* The state machine: one step is one call, from Lock to the deferred Unlock *)

NoReq == [op |-> "none", key |-> 0, val |-> Nil]

\* A goroutine's locals are a record; n holds a counter value HitRate read
NoLoc == [n |-> 0]

\* No goroutine is in a call, the mutex is free, the logger is nil
Quiet ==
  /\ logger = NoLogger
  /\ mutex = NoThread
  /\ pc = [t \in Threads |-> "idle"]
  /\ req = [t \in Threads |-> NoReq]
  /\ loc = [t \in Threads |-> NoLoc]
  /\ gets = 0 /\ rems = 0

Init ==
  \E l \in {x \in LimitInputs : NewAccepts(x)} :
    LET c == New(l) IN
    /\ Quiet
    /\ list = c.list /\ elems = c.elems /\ data = c.data /\ limit = c.limit
    /\ hits = c.hits /\ misses = c.misses /\ expired = c.expired
    /\ removes = c.removes /\ purger = c.purger
    /\ last = [op |-> "New", key |-> 0, val |-> Nil, ret |-> Nil,
               found |-> FALSE, panicked |-> FALSE]
    /\ calls = <<>>
    /\ touched = <<>>
    /\ scenario = [phase |-> "run", n |-> 0, inv |-> 0, order |-> <<>>]

\* The call op(key, val / p) returned r: its effects become the new state.
Returns(op, key, val, p, r) ==
  LET c == Collect(r.c) IN
  /\ list' = c.list /\ elems' = c.elems /\ data' = c.data /\ limit' = c.limit
  /\ hits' = c.hits /\ misses' = c.misses /\ expired' = c.expired
  /\ removes' = c.removes /\ purger' = c.purger
  /\ last' = [op |-> op, key |-> key, val |-> val, ret |-> r.ret,
              found |-> r.found, panicked |-> r.panicked]
  /\ calls' = c.calls
  /\ touched' = NextTouched(c, op, key, r)
  /\ scenario' = NextScenario(c, op, key, p)
  /\ UNCHANGED concVars

CallSet == \E key \in Keys, val \in Values :
  LET r == Set(Cur, key, val) IN
  /\ WithinBounds(r.c)
  /\ Returns("Set", key, val, NoPurger, r)

CallGet == \E key \in Keys :
  LET r == Get(Cur, key) IN
  /\ WithinBounds(r.c)
  /\ Returns("Get", key, Nil, NoPurger, r)

CallRemove == \E key \in Keys :
  LET r == Remove(Cur, key) IN
  /\ WithinBounds(r.c)
  /\ Returns("Remove", key, Nil, NoPurger, r)

CallRemoveAll ==
  LET r == RemoveAll(Cur) IN
  /\ WithinBounds(r.c)
  /\ Returns("RemoveAll", 0, Nil, NoPurger, r)

CallRegisterPurger == \E p \in Purgers \cup {NoPurger} :
  LET r == RegisterPurger(Cur, p) IN
  /\ WithinBounds(r.c)
  /\ Returns("RegisterPurger", 0, Nil, p, r)

CallResetStats ==
  LET r == ResetStats(Cur) IN
  /\ WithinBounds(r.c)
  /\ Returns("ResetStats", 0, Nil, NoPurger, r)

CallHitRate ==
  LET r == HitRate(Cur) IN
  /\ WithinBounds(r.c)
  /\ Returns("HitRate", 0, Nil, NoPurger, r)

Next ==
  \/ CallSet
  \/ CallGet
  \/ CallRemove
  \/ CallRemoveAll
  \/ CallRegisterPurger
  \/ CallResetStats
  \/ CallHitRate

Spec == Init /\ [][Next]_vars

----------------------------------------------------------------------------
(* The state machine of several goroutines.  A method that locks is four
   steps: Lock, the body's reads (Body), the body's writes (Store) and the
   deferred Unlock.  HitRate and Len take no lock: each read of a field is a
   step of its own.  SetLogger is one unlocked write. *)

\* The caches the goroutines share: the smallest limit, and the limits
\* int() turns negative
ConcLimits == {1} \cup WideLimits

\* The calls of the methods that lock
Requests ==
  [op : {"Set"}, key : Keys, val : Values]
    \cup [op : {"Get", "Remove"}, key : Keys, val : {Nil}]
    \cup [op : {"RemoveAll", "ResetStats", "Stats"}, key : {0}, val : {Nil}]

Apply(q, c) ==
  CASE q.op = "Set" -> Set(c, q.key, q.val)
    [] q.op = "Get" -> Get(c, q.key)
    [] q.op = "Remove" -> Remove(c, q.key)
    [] q.op = "RemoveAll" -> RemoveAll(c)
    [] q.op = "ResetStats" -> ResetStats(c)
    [] q.op = "Stats" -> Stats(c)

ConcInit ==
  \E l \in ConcLimits :
    LET c == New(l) IN
    /\ Quiet
    /\ list = c.list /\ elems = c.elems /\ data = c.data /\ limit = c.limit
    /\ hits = c.hits /\ misses = c.misses /\ expired = c.expired
    /\ removes = c.removes /\ purger = c.purger
    /\ last = [op |-> "New", key |-> 0, val |-> Nil, ret |-> Nil,
               found |-> FALSE, panicked |-> FALSE]
    /\ calls = <<>>
    /\ touched = <<>>
    /\ scenario = NoScenario

\* sync.Mutex: Lock returns only when no goroutine holds the mutex
LockFree_always(m) == TRUE
LockFree(m) == m = NoThread

Goto(t, label) == pc' = [pc EXCEPT ![t] = label]

\* l.mutex.Lock() at the head of Set, Get, Remove, RemoveAll, ResetStats and
\* Stats.  A goroutine blocked in Lock is one that has not taken this step.
MutexLock(t) ==
  /\ pc[t] = "idle"
  /\ LockFree(mutex)
  /\ \E q \in Requests :
       /\ WithinBounds(Apply(q, Cur).c)
       /\ req' = [req EXCEPT ![t] = q]
  /\ mutex' = t
  /\ Goto(t, "locked")
  /\ UNCHANGED <<cacheVars, histVars, logger, loc, gets, rems>>

\* The body up to its writes: it reads the cache and computes the call's
\* result and the new field values (Stats: the first three fields).  A Set
\* whose loop enters expire on an empty list is at expire's Printf.
Body(t) ==
  /\ pc[t] = "locked"
  /\ LET r == Apply(req[t], Cur) IN
     IF r.c.nilEntry
       THEN /\ Goto(t, "nilEntry")
            /\ UNCHANGED loc
       ELSE /\ Goto(t, "store")
            /\ loc' = [loc EXCEPT ![t] =
                  IF req[t].op = "Stats"
                    THEN [Hits |-> hits, Misses |-> misses, Limit |-> limit]
                    ELSE r]
  /\ UNCHANGED <<cacheVars, histVars, logger, mutex, req, gets, rems>>

\* l.logger.Printf in expire: a panic on the nil logger (the deferred Unlock
\* runs); with a logger, expire returns and Set is at its loop again.
ExpireLog(t) ==
  /\ pc[t] = "nilEntry"
  /\ IF logger = NoLogger
       THEN /\ Goto(t, "unlock")
            /\ loc' = [loc EXCEPT ![t] =
                  [c |-> Cur, ret |-> Nil, found |-> FALSE,
                   panicked |-> TRUE]]
       ELSE /\ Goto(t, "locked")
            /\ UNCHANGED loc
  /\ UNCHANGED <<cacheVars, histVars, logger, mutex, req, gets, rems>>

\* The body's writes (Stats: the reads of the last three fields)
Store(t) ==
  /\ pc[t] = "store"
  /\ IF req[t].op = "Stats"
       THEN /\ loc' = [loc EXCEPT ![t] =
                  [Hits |-> loc[t].Hits, Misses |-> loc[t].Misses,
                   Limit |-> loc[t].Limit, Len |-> ListLen(list),
                   Expired |-> expired, Removes |-> removes]]
            /\ UNCHANGED <<cacheVars, gets, rems>>
       ELSE LET c == Collect(loc[t].c) IN
            /\ list' = c.list /\ elems' = c.elems /\ data' = c.data
            /\ limit' = c.limit
            /\ hits' = c.hits /\ misses' = c.misses
            /\ expired' = c.expired /\ removes' = c.removes
            /\ purger' = c.purger
            /\ gets' = IF req[t].op = "ResetStats" THEN 0
                       ELSE IF req[t].op = "Get" THEN gets + 1 ELSE gets
            /\ rems' = IF req[t].op = "ResetStats" THEN 0
                       ELSE IF req[t].op = "Remove" THEN rems + 1 ELSE rems
            /\ UNCHANGED loc
  /\ Goto(t, "unlock")
  /\ UNCHANGED <<histVars, logger, mutex, req>>

\* The deferred l.mutex.Unlock(), and the return
MutexUnlock(t) ==
  /\ pc[t] = "unlock"
  /\ mutex' = NoThread
  /\ Goto(t, "idle")
  /\ req' = [req EXCEPT ![t] = NoReq]
  /\ loc' = [loc EXCEPT ![t] = NoLoc]
  /\ UNCHANGED <<cacheVars, histVars, logger, gets, rems>>

\* HitRate is called
HitRateEnter(t) ==
  /\ pc[t] = "idle"
  /\ Goto(t, "hr_test")
  /\ UNCHANGED <<cacheVars, histVars, logger, mutex, req, loc, gets, rems>>

\* if l.hits == 0 { return 0.0 }
HitRateTest(t) ==
  /\ pc[t] = "hr_test"
  /\ Goto(t, IF hits = 0 THEN "idle" ELSE "hr_num")
  /\ UNCHANGED <<cacheVars, histVars, logger, mutex, req, loc, gets, rems>>

\* float32(l.hits): the dividend
HitRateNum(t) ==
  /\ pc[t] = "hr_num"
  /\ loc' = [loc EXCEPT ![t] = [n |-> hits]]
  /\ Goto(t, "hr_den")
  /\ UNCHANGED <<cacheVars, histVars, logger, mutex, req, gets, rems>>

\* The result HitRate returns when it reads the divisor now
HitRateResult(t) ==
  [num |-> Float32(loc[t].n),
   den |-> Float32((hits + misses) % (2 ^ UintBits))]

\* float32(l.hits+l.misses): the divisor, the division and the return
HitRateDen(t) ==
  /\ pc[t] = "hr_den"
  /\ loc' = [loc EXCEPT ![t] = NoLoc]
  /\ Goto(t, "idle")
  /\ UNCHANGED <<cacheVars, histVars, logger, mutex, req, gets, rems>>

\* Len is called
LenEnter(t) ==
  /\ pc[t] = "idle"
  /\ Goto(t, "len")
  /\ UNCHANGED <<cacheVars, histVars, logger, mutex, req, loc, gets, rems>>

\* return l.list.Len()
LenRead(t) ==
  /\ pc[t] = "len"
  /\ Goto(t, "idle")
  /\ UNCHANGED <<cacheVars, histVars, logger, mutex, req, loc, gets, rems>>

\* SetLogger: l.logger = logger
SetLogger(t) ==
  /\ pc[t] = "idle"
  /\ \E lg \in Loggers \cup {NoLogger} :
       /\ lg # logger
       /\ logger' = lg
  /\ UNCHANGED <<cacheVars, histVars, mutex, pc, req, loc, gets, rems>>

\* The steps that continue a call a goroutine is in
Continue(t) ==
  \/ Body(t)
  \/ ExpireLog(t)
  \/ Store(t)
  \/ MutexUnlock(t)
  \/ HitRateTest(t)
  \/ HitRateNum(t)
  \/ HitRateDen(t)
  \/ LenRead(t)

ConcNext ==
  \E t \in Threads :
    \/ MutexLock(t)
    \/ HitRateEnter(t)
    \/ LenEnter(t)
    \/ SetLogger(t)
    \/ Continue(t)

ConcSpec == ConcInit /\ [][ConcNext]_vars

\* The Go scheduler lets every goroutine that can run take its next step
FairSpec ==
  /\ ConcInit
  /\ [][ConcNext]_vars
  /\ \A t \in Threads : WF_vars(Continue(t))

----------------------------------------------------------------------------
(* Shorthands for the properties *)

\* Len()
CacheLen == ListLen(list)

\* The keys the cache holds
Present == DOMAIN data

\* The value a Get of key k would return now
Stored(k) == elems[data[k]].value

\* The value a Get of key k would return after the step
StoredAfter(k) == elems'[data'[k]].value

\* The step is a call of op that returned (did not panic)
Returned(op) == last'.op = op /\ ~last'.panicked

TypeOK ==
  /\ limit \in LimitInputs \ {0}
  /\ Present \subseteq Keys
  /\ \A k \in Present : data[k] \in DOMAIN elems
  /\ hits \in 0..MaxCount /\ misses \in 0..MaxCount
  /\ expired \in 0..MaxCount /\ removes \in 0..MaxCount
  /\ purger \in Purgers \cup {NoPurger}

Max(a, b) == IF a >= b THEN a ELSE b

\* The keys of the list now, front first
Order == KeysOf(list, elems)

----------------------------------------------------------------------------
(* The properties *)

\* C1: in every state reachable from a cache built with limit L >= 1 by any
\* sequence of Set, Get, Remove, RemoveAll, ResetStats and RegisterPurger
\* calls, Len() <= L.
C1_LenWithinLimit == CacheLen <= limit

\* A Set that had to evict has just returned and the cache is full.
C1_Witness ==
  /\ last.op = "Set" /\ ~last.panicked
  /\ expired >= 1 /\ CacheLen = limit /\ limit >= 2

\* C2: Get(k) on a present key returns (v, true) where v is the value passed
\* to the most recent Set(k, v) of that key, whether that Set created the
\* entry or updated one already present.  Stated for the Get that directly
\* follows the Set, where last holds that Set's key and value.
C2_GetReturnsLatestSet ==
  [][(last.op = "Set" /\ ~last.panicked
        /\ last'.op = "Get" /\ last'.key = last.key)
       => (last'.found /\ last'.ret = last.val)]_vars

\* C3: Set(k, v) on a present key, in any reachable state (a full cache and
\* a least recently used k included), returns the value the previous Set of
\* k stored and leaves Len() unchanged.  Stated for the Set that directly
\* follows a Set of the same key, where last holds that Set's value.
C3_SetPresentReturnsPrevious ==
  [][(last.op = "Set" /\ ~last.panicked
        /\ Returned("Set") /\ last'.key = last.key)
       => (last'.ret = last.val /\ CacheLen' = CacheLen)]_vars

\* C4: when Set inserts an absent key into a cache with Len() = limit,
\* exactly one entry is evicted, the least recently touched one (a key is
\* touched by every Set of it and every successful Get of it), and every
\* other entry stays present; so after the insertion of more than limit
\* distinct keys and nothing else, the keys have been evicted in insertion
\* order.
C4_EvictsLeastRecentlyTouched ==
  /\ [][(Returned("Set") /\ last'.key \notin Present /\ CacheLen = limit)
          => /\ Len(touched) = CacheLen
             /\ LET victim == touched[Len(touched)] IN
                /\ victim \in Present
                /\ Present' = (Present \ {victim}) \cup {last'.key}
                /\ \A k \in Present \ {victim} : StoredAfter(k) = Stored(k)
             /\ expired' = expired + 1]_vars
  /\ [](scenario.phase = "run" /\ ~last.panicked
          => LET n == scenario.n
                 kept == SubSeq(scenario.order, Max(0, n - limit) + 1, n)
             IN  Order = [i \in 1..Len(kept) |-> kept[Len(kept) + 1 - i]])

\* A Set of a new key has just evicted from a full cache whose least
\* recently touched key was not the least recently inserted one.
C4_Witness ==
  /\ last.op = "Set" /\ last.ret = Nil /\ ~last.panicked
  /\ limit = 2 /\ CacheLen = 2 /\ expired = 1 /\ hits = 1
  /\ Order = <<3, 1>> /\ Stored(1) = 2

\* C5: Set(k, v) on an absent key returns nil and makes k present; Len()
\* grows by exactly 1 when it was below the limit, and stays equal to the
\* limit when it was equal to it.
C5_SetAbsent ==
  [][(Returned("Set") /\ last'.key \notin Present)
       => /\ last'.ret = Nil
          /\ last'.key \in Present'
          /\ StoredAfter(last'.key) = last'.val
          /\ CacheLen < limit => CacheLen' = CacheLen + 1
          /\ CacheLen = limit => CacheLen' = limit]_vars

\* Both cases have happened: a Set below the limit, and one at the limit.
C5_Witness ==
  /\ last.op = "Set" /\ last.ret = Nil /\ ~last.panicked
  /\ scenario.phase = "run" /\ scenario.n = limit + 1
  /\ CacheLen = limit

\* C6: every Get changes exactly one of hits and misses, by +1: hits when
\* the key is present (the result is (value, true)), misses when it is
\* absent (the result is (nil, false)); the other counter, expired, removes,
\* the set of keys and the stored values are unchanged by Get.
C6_GetCountsOnce ==
  [][last'.op = "Get"
       => /\ IF last'.key \in Present
               THEN /\ last'.found /\ last'.ret = Stored(last'.key)
                    /\ hits' = hits + 1 /\ misses' = misses
               ELSE /\ ~last'.found /\ last'.ret = Nil
                    /\ misses' = misses + 1 /\ hits' = hits
          /\ expired' = expired /\ removes' = removes
          /\ Present' = Present
          /\ \A k \in Present : StoredAfter(k) = Stored(k)]_vars

\* A hit and a miss have both been counted.
C6_Witness ==
  /\ last.op = "Get" /\ ~last.found
  /\ hits = 1 /\ misses = 1 /\ CacheLen = 2

\* C7: Remove(k) on a present key returns true, removes exactly k from the
\* index and the sequence (Len() falls by 1, every other entry and value is
\* kept), never invokes the purger and leaves expired alone; Remove(k) on an
\* absent key returns false and changes nothing but removes.  In both cases
\* removes grows by exactly 1.
C7_Remove ==
  [][last'.op = "Remove"
       => /\ removes' = removes + 1
          /\ expired' = expired /\ hits' = hits /\ misses' = misses
          /\ calls' = <<>> /\ purger' = purger /\ limit' = limit
          /\ IF last'.key \in Present
               THEN /\ last'.found
                    /\ Present' = Present \ {last'.key}
                    /\ CacheLen' = CacheLen - 1
                    /\ Order' = SelectSeq(Order, LAMBDA k : k # last'.key)
                    /\ \A k \in Present' : StoredAfter(k) = Stored(k)
               ELSE /\ ~last'.found
                    /\ list' = list /\ elems' = elems /\ data' = data]_vars

\* A Remove has just taken a present key out of a cache of three entries
\* that has a purger registered.
C7_Witness ==
  /\ last.op = "Remove" /\ last.found
  /\ removes = 1 /\ purger # NoPurger /\ CacheLen = 2
  /\ hits = 0 /\ misses = 0 /\ expired = 0

\* C8: with a purger registered, OnPurge is invoked exactly once per
\* eviction, in eviction order, each time after the evicted key has left
\* the cache and before any further eviction or the insertion of the new
\* entry; so the invocations of a call are as many as expired grows by, and
\* N Sets of distinct keys on a fresh cache of limit L cause exactly
\* max(0, N - L) invocations.
C8_PurgePerEviction ==
  /\ [][last'.op # "ResetStats"
          => IF purger = NoPurger THEN calls' = <<>>
             ELSE /\ Len(calls') = expired' - expired
                  /\ \A i \in 1..Len(calls') :
                       /\ i <= CacheLen
                       /\ calls'[i].purger = purger
                       /\ calls'[i].key = Order[CacheLen + 1 - i]
                       /\ calls'[i].key \notin calls'[i].dataKeys
                       /\ calls'[i].listKeys = SubSeq(Order, 1, CacheLen - i)
                       /\ calls'[i].expired = expired + i]_vars
  /\ [](scenario.phase = "run" /\ purger # NoPurger
          => scenario.inv = Max(0, scenario.n - limit))

\* Three Sets of distinct keys on a fresh cache of limit 1 with a purger:
\* two invocations.
C8_Witness ==
  /\ scenario.phase = "run" /\ purger # NoPurger
  /\ limit = 1 /\ scenario.n = 3 /\ scenario.inv = 2 /\ Len(calls) = 1

\* C9: the sequence is ordered by recency: after a Set(k, v) or a successful
\* Get(k), k is at the front and the other remaining entries keep their
\* relative order; after Remove(k) the remaining entries keep their relative
\* order; a Get miss changes no order.
C9_RecencyOrder ==
  [][/\ (Returned("Set") \/ (last'.op = "Get" /\ last'.found))
          => Order' = <<last'.key>> \o
                SelectSeq(Order,
                          LAMBDA k : k # last'.key /\ k \in Present')
     /\ last'.op = "Remove"
          => Order' = SelectSeq(Order, LAMBDA k : k \in Present')
     /\ (last'.op = "Get" /\ ~last'.found) => Order' = Order]_vars

\* Set 1, 2, 3 gave 3, 2, 1 and Get(1) has just made it 1, 3, 2.
C9_Witness ==
  /\ last.op = "Get" /\ last.found /\ last.key = 1
  /\ scenario.phase = "off" /\ hits = 1 /\ misses + expired + removes = 0
  /\ Order = <<1, 3, 2>>

\* C10: RemoveAll, called with n entries, ends with Len() = 0 and an empty
\* index, adds exactly n to expired, leaves hits, misses and removes alone
\* and, when a purger is registered, invokes it exactly once for each of the
\* n entries, least recently used first.
C10_RemoveAll ==
  [][last'.op = "RemoveAll"
       => /\ ~last'.panicked
          /\ CacheLen' = 0 /\ Present' = {}
          /\ expired' = expired + CacheLen
          /\ hits' = hits /\ misses' = misses /\ removes' = removes
          /\ IF purger = NoPurger THEN calls' = <<>>
             ELSE /\ Len(calls') = CacheLen
                  /\ \A i \in 1..Len(calls') :
                       /\ calls'[i].key = Order[CacheLen + 1 - i]
                       /\ calls'[i].purger = purger]_vars

\* RemoveAll has just purged two entries.
C10_Witness ==
  /\ last.op = "RemoveAll" /\ Len(calls) = 2 /\ expired = 2 /\ CacheLen = 0

\* C11: ResetStats sets hits, misses, expired and removes to 0 and leaves the
\* limit, the key set, the stored values, the recency order and the
\* registered purger unchanged; no other call ever decreases one of the four
\* counters.
C11_ResetStats ==
  [][IF last'.op = "ResetStats"
       THEN /\ hits' = 0 /\ misses' = 0 /\ expired' = 0 /\ removes' = 0
            /\ limit' = limit /\ purger' = purger
            /\ Present' = Present /\ Order' = Order
            /\ \A k \in Present : StoredAfter(k) = Stored(k)
            /\ list' = list /\ data' = data /\ elems' = elems
       ELSE /\ hits' >= hits /\ misses' >= misses
            /\ expired' >= expired /\ removes' >= removes]_vars

\* ResetStats has just cleared the counters of a cache that holds two
\* entries and a purger.
C11_Witness ==
  /\ last.op = "ResetStats"
  /\ hits = 0 /\ misses = 0 /\ expired = 0 /\ removes = 0
  /\ CacheLen = 2 /\ purger # NoPurger /\ scenario.phase = "off"

\* C12: in every state reached by sequential calls, HitRate() equals
\* hits / (hits + misses) for the current counters, is exactly 0 when
\* hits = 0 (hits = misses = 0 included) and lies in [0, 1]; after one hit it
\* is 1, after one hit and one miss it is 1/2.
C12_HitRate ==
  last.op = "HitRate"
    => LET rate == last.ret IN
       /\ rate.den > 0
       /\ hits = 0 => rate.num = 0
       /\ hits # 0 => rate.num * (hits + misses) = hits * rate.den
       /\ 0 <= rate.num /\ rate.num <= rate.den
       /\ (hits = 1 /\ misses = 0) => rate.num = rate.den
       /\ (hits = 1 /\ misses = 1) => 2 * rate.num = rate.den

\* HitRate has just answered 1/2 after one hit and one miss.
C12_Witness ==
  /\ last.op = "HitRate" /\ hits = 1 /\ misses = 1
  /\ 2 * last.ret.num = last.ret.den /\ last.ret.num > 0

\* C13: in every reachable state the index and the sequence agree: there are
\* as many sequence nodes as index keys, every index key maps to a node that
\* is in the sequence and whose entry carries that key, and no key occurs in
\* two nodes.
C13_IndexMatchesSequence ==
  /\ Len(list) = Cardinality(DOMAIN data)
  /\ \A k \in DOMAIN data :
       /\ data[k] \in Range(list)
       /\ elems[data[k]].key = k
  /\ \A i, j \in 1..Len(list) :
       elems[list[i]].key = elems[list[j]].key => i = j

\* A Remove has just taken a key out of a cache that had evicted before and
\* still holds an entry.
C13_Witness ==
  /\ last.op = "Remove" /\ last.found
  /\ expired = 1 /\ limit = 2 /\ CacheLen = 1

\* C14: a Set(k, v) on a key that is present evicts nothing: it does not
\* change expired, does not invoke the purger and leaves the set of present
\* keys unchanged, also when Len() = limit.
C14_SetPresentEvictsNothing ==
  [][(Returned("Set") /\ last'.key \in Present)
       => /\ expired' = expired
          /\ calls' = <<>>
          /\ Present' = Present]_vars

\* C15: on every eviction the purger is called with the evicted entry's key
\* and with the entry's stored value itself, the value a Get of that key
\* would have returned just before, not the cacheEntry record around it.
C15_PurgerGetsStoredValue ==
  [][\A i \in 1..Len(calls') :
       /\ calls'[i].key \in Present
       /\ ~calls'[i].wrapped
       /\ calls'[i].value = Stored(calls'[i].key)]_vars

\* C19: expire is never entered with an empty sequence, for every limit New
\* accepts: each iteration of Set's loop and of RemoveAll's loop finds a
\* back node, so no call reaches the nil-entry branch (whose Printf on the
\* nil logger ends the call in a panic).
C19_ExpireFindsBack == ~last.panicked

\* The labels at which a goroutine's next step reads or writes the map, the
\* list, the counters or the purger, and those of them in HitRate and Len
AccessLabels ==
  {"locked", "nilEntry", "store", "hr_test", "hr_num", "hr_den", "len"}
ReaderLabels == {"hr_test", "hr_num", "hr_den", "len"}
MutatingOps == {"Set", "Get", "Remove", "RemoveAll", "ResetStats"}

C17_HitRateConsistent ==
  [][\A t \in Threads :
       (pc[t] = "hr_den" /\ pc'[t] = "idle")
         => LET rate == HitRateResult(t) IN
            /\ rate.den > 0
            /\ 0 <= rate.num /\ rate.num <= rate.den]_vars

\* C18: concurrent Set, Get, Remove, RemoveAll, Stats and ResetStats calls
\* are serializable: each call takes effect as one step on the state the
\* cache has at that moment, with the result the method gives on that
\* state, so no counter update is lost (hits + misses is the number of Gets
\* and removes the number of Removes that took effect since the last
\* ResetStats) and every Stats snapshot is the counters, limit and length
\* of one state.
C18_Serializable ==
  /\ [](hits + misses = gets /\ removes = rems)
  /\ [](\A t \in Threads :
          (pc[t] = "unlock" /\ req[t].op = "Stats")
            => loc[t] = Stats(Cur).ret)
  /\ [][\A t \in Threads :
          (pc[t] = "store" /\ pc'[t] = "unlock" /\ req[t].op # "Stats")
            => LET r == Apply(req[t], Cur) IN
               /\ Cur' = [Collect(r.c) EXCEPT !.calls = <<>>]
               /\ loc[t].ret = r.ret /\ loc[t].found = r.found]_vars

\* Two Gets have taken effect, a hit and a miss, and Stats has read them
\* while the other goroutine is inside HitRate.
C18_Witness ==
  /\ gets = 2 /\ hits = 1 /\ misses = 1
  /\ pc[1] = "unlock" /\ req[1].op = "Stats"
  /\ loc[1].Hits = 1 /\ loc[1].Misses = 1 /\ loc[1].Len = 1
  /\ pc[2] = "hr_den"

\* C20: every public operation ends and releases the mutex it acquired:
\* under fair scheduling a goroutine that holds the mutex eventually
\* releases it, so the cache is never locked forever.
C20_MutexReleased ==
  \A t \in Threads : (mutex = t) ~> (mutex # t)

====
